---- MODULE Spec2Model ----
(***************************************************************************)
(* Model of the polyphonic note engine of simple_piano_rn:                 *)
(* src/services/AudioService.ts (AudioService) together with               *)
(* src/utils/noteFrequencies.ts (isSupportedNote, PIANO_FREQUENCIES).      *)
(*                                                                         *)
(* JavaScript runs every handler to its next `await`.  An action of this   *)
(* module is one such run-to-completion block.  startNote has one real     *)
(* suspension point (await stopNote(); await setTimeout(10)), destroy has  *)
(* two (await stopAllNotes(); await audioContext.close()).                 *)
(*                                                                         *)
(* The specifications share the actions.  Spec follows the note engine     *)
(* with seven supported noteIds and no passage of time; SpecWatchdog lets  *)
(* the wall clock advance and the interval timer fire, with two noteIds;   *)
(* SpecConfig adds the configuration setters and initialize(config), with  *)
(* one noteId; SpecEmit adds subscribers; SpecGain follows velocities and  *)
(* the envelope; SpecFrame has every kind of call on one noteId; SpecLive  *)
(* is SpecWatchdog's timer under a fair event loop; SpecFreq applies the   *)
(* functions of noteFrequencies.ts.                                        *)
(*                                                                         *)
(* Times are whole seconds.  Ratios (volume, sustain) are in tenths.       *)
(***************************************************************************)
EXTENDS Integers, Sequences, FiniteSets, TLC

(* ---------------------------------------------------------------- bounds *)

\* suspended startNote calls (in their 10 ms settle delay) at one time
MaxPending == 1
\* platform calls that throw within one run of stopAllNotes
MaxThrows == 1
\* seconds of wall-clock time followed after the start of the program
MaxTime == 60
\* the same where the interval timer is not followed (SpecConfig)
ConfigTime == 10
\* the same where every voice is followed to its removal (SpecLive)
LiveTime == 60
\* listeners registered at one time, over all topics (SpecEmit)
MaxListeners == 3
\* listener invocations followed within one emit: one that makes more has
\* not ended
MaxDeliver == 8

(* ------------------------------------------------------------- constants *)

\* const maxConcurrentNotes = 6
maxConcurrentNotes == 6
\* setInterval(..., 10000)
cleanupInterval == 10
\* now - this.lastCleanupTime > 30000
cleanupGate == 30
\* now - playingNote.startTime * 1000 > 10000
staleAfter == 10
\* linearRampToValueAtTime(..., currentTime + 0.1), in milliseconds
rampTime == 100
\* Date.now() when the program starts, in seconds since 1970
Epoch == 1700000000

\* keys of PIANO_FREQUENCIES: C3..C6
PIANO_FREQUENCIES ==
  { "C3", "C#3", "D3", "D#3", "E3", "F3", "F#3", "G3", "G#3", "A3", "A#3", "B3",
    "C4", "C#4", "D4", "D#4", "E4", "F4", "F#4", "G4", "G#4", "A4", "A#4", "B4",
    "C5", "C#5", "D5", "D#5", "E5", "F5", "F#5", "G5", "G#5", "A5", "A#5", "B5",
    "C6" }

isSupportedNote_any(noteId) == TRUE
isSupportedNote(noteId) == noteId \in PIANO_FREQUENCIES

\* the noteIds callers pass in this model, in a fixed listing order:
\* seven supported ones (one more than the cap) and one outside C3..C6
NoteOrder == << "C4", "D4", "E4", "F4", "G4", "A4", "B4", "C7" >>
NoteIds == { NoteOrder[i] : i \in 1..Len(NoteOrder) }

(* --------------------------------------------------------------- numbers *)

\* a JavaScript number: a finite value or NaN; "absent" stands for a key that
\* a Partial<...> argument does not have
Num(v) == [k |-> "num", v |-> v]
NaN == [k |-> "nan", v |-> 0]
Absent == [k |-> "absent", v |-> 0]

\* Math.max(a, b) and Math.min(a, b): NaN when either argument is NaN
Math_max(a, b) ==
  IF a.k = "nan" \/ b.k = "nan" THEN NaN ELSE IF a.v >= b.v THEN a ELSE b
Math_min(a, b) ==
  IF a.k = "nan" \/ b.k = "nan" THEN NaN ELSE IF a.v <= b.v THEN a ELSE b

(* ----------------------------------------------------------------- state *)

VARIABLES
  isInitialized,   \* private isInitialized
  audioContext,    \* "null", or the state of the AudioContext object
  playingNotes,    \* Map<NoteId, PlayingNote>: function on the live noteIds
  running,         \* per noteId: oscillators started on which stop() was never called
  pending,         \* startNote calls suspended in the settle delay (FIFO)
  destroyPc,       \* position of the destroy() call in flight
  last,            \* what the handler that ran last did, until Return clears it
  config,          \* private config: masterVolume, envelope.sustain,
                   \* envelope.release (tenths of a second), filterFrequency
  masterGainNode,  \* TRUE when the handle is not null
  compressorNode,
  filterNode,
  cleanupTimer,    \* TRUE when the handle is not null
  intervals,       \* the interval timers that are set: the time each fires next
  lastCleanupTime, \* private lastCleanupTime (0 at construction)
  now,             \* Date.now(), in seconds
  ctxCreated,      \* Date.now() when the AudioContext was constructed
  eventListeners,  \* Map<topic, Set<Function>>: per topic, in insertion order
  delivered        \* the listener invocations of the handler that ran last

noteVars == << playingNotes, running, pending >>
graphVars == << masterGainNode, compressorNode, filterNode >>
watchdogVars == << cleanupTimer, intervals, lastCleanupTime >>
clockVars == << now, ctxCreated >>
listenerVars == << eventListeners, delivered >>

vars == << isInitialized, audioContext, playingNotes, running, pending,
           destroyPc, last, config, graphVars, watchdogVars, clockVars,
           listenerVars >>

NoteEnd(n)   == [topic |-> "noteEnd", noteId |-> n, type |-> "-"]
NoteStart(n) == [topic |-> "noteStart", noteId |-> n, type |-> "-"]
ErrorEv(t)   == [topic |-> "error", noteId |-> "-", type |-> t]
StateChange  == [topic |-> "contextStateChange", noteId |-> "-", type |-> "-"]

\* what a call did: its result ("pending" while it is suspended), the events
\* it handed to emit() in order, the noteIds it started an oscillator for
\* (alloc), those whose oscillator it called stop() on (stops), and the
\* platform calls that threw in the run that ended last ("ctor", "stop",
\* "create"); further the calls it made on the nodes of the chain (calls),
\* its console.warn entries (warns), the interval timers it set (timers) and
\* the voices it removed as stale (reaped); arg is the number a setter was
\* called with
Result(op, n, ret, events, alloc, stops, threw) ==
  [op |-> op, noteId |-> n, ret |-> ret, events |-> events,
   alloc |-> alloc, stops |-> stops, threw |-> threw,
   calls |-> << >>, warns |-> << >>, timers |-> 0, reaped |-> {},
   arg |-> Absent]

Idle == Result("idle", "-", "void", << >>, {}, {}, {})

size(map) == Cardinality(DOMAIN map)
has(map, n) == n \in DOMAIN map
delete(map, n) == [k \in (DOMAIN map) \ {n} |-> map[k]]
set_onlyKey(map, n, v) == [k \in {n} |-> v]
set(map, n, v) == [k \in (DOMAIN map) \cup {n} |-> IF k = n THEN v ELSE map[k]]
EmptyMap == [k \in {} |-> [state |-> "playing", startTime |-> 0, born |-> 0]]

getPlayingNotes == DOMAIN playingNotes
isNotePlaying(n) == has(playingNotes, n) /\ playingNotes[n].state = "playing"
isReady == isInitialized /\ audioContext # "null"

\* audioContext.currentTime: seconds since the context was constructed
currentTime == now - ctxCreated

\* the PlayingNote recorded at line 252-258; born is the wall-clock time of
\* the start, which PlayingNote does not hold (kept to tell a voice's age)
PlayingNote == [state |-> "playing", startTime |-> currentTime, born |-> now]

(* ------------------------------------------------------------------ emit *)

Topics == { "noteStart", "noteEnd", "error", "contextStateChange" }

\* initializeEventListeners(): an empty Set for each of the four topics
NoListeners == [t \in Topics |-> << >>]

\* log: the listeners invoked and, for each, the place in last.events of the
\* event it was invoked with; first: the place of the first event that the
\* run that ended last emitted (a resumed startNote reports the events of
\* its first run too); diverged: an emit did not end
NothingDelivered == [log |-> << >>, diverged |-> FALSE, first |-> 1]

\* the listeners of this model, by what each does when it is invoked:
\* "plain" and "late" return; "thrower" throws; "adder" registers "late" for
\* the topic of the event; "remover" unregisters "plain"; "again"
\* unregisters and registers itself
Listeners == { "plain", "thrower", "adder", "remover", "again", "late" }

indexOf(seq, x) ==
  IF \E i \in 1..Len(seq) : seq[i] = x
    THEN CHOOSE i \in 1..Len(seq) : seq[i] = x
    ELSE 0

\* Set.prototype.add: a value that is in the Set keeps its place
add(seq, x) == IF indexOf(seq, x) = 0 THEN Append(seq, x) ELSE seq

\* Set.prototype.delete
remove(seq, x) ==
  LET p == indexOf(seq, x) IN
  IF p = 0 THEN seq
  ELSE SubSeq(seq, 1, p - 1) \o SubSeq(seq, p + 1, Len(seq))

\* what invoking listener l does to the Set it is registered in, and the
\* place i of the iteration in it: a deletion at or before the place of the
\* iteration moves it back by one
invoke(l, seq, i) ==
  LET gone(x) == IF indexOf(seq, x) # 0 /\ indexOf(seq, x) <= i THEN 1 ELSE 0 IN
  IF l = "adder" THEN [seq |-> add(seq, "late"), i |-> i]
  ELSE IF l = "remover"
    THEN [seq |-> remove(seq, "plain"), i |-> i - gone("plain")]
  ELSE IF l = "again"
    THEN [seq |-> add(remove(seq, l), l), i |-> i - gone(l)]
  ELSE [seq |-> seq, i |-> i]

\* iteration that ends at the first listener that throws
RECURSIVE forEach_noCatch(_, _, _, _)
forEach_noCatch(seq, i, log, fuel) ==
  IF i > Len(seq) THEN [seq |-> seq, log |-> log, diverged |-> FALSE]
  ELSE IF fuel = 0 THEN [seq |-> seq, log |-> log, diverged |-> TRUE]
  ELSE IF seq[i] = "thrower"
    THEN [seq |-> seq, log |-> Append(log, seq[i]), diverged |-> FALSE]
  ELSE LET r == invoke(seq[i], seq, i) IN
       forEach_noCatch(r.seq, r.i + 1, Append(log, seq[i]), fuel - 1)

\* listeners.forEach(listener => { try { listener(eventData) } catch ... }):
\* Set.prototype.forEach visits the values of the Set itself in insertion
\* order, those added during the iteration included and those deleted before
\* their turn excluded; i is the place of the next value, log the listeners
\* invoked so far
RECURSIVE forEach(_, _, _, _)
forEach(seq, i, log, fuel) ==
  IF i > Len(seq) THEN [seq |-> seq, log |-> log, diverged |-> FALSE]
  ELSE IF fuel = 0 THEN [seq |-> seq, log |-> log, diverged |-> TRUE]
  ELSE LET r == invoke(seq[i], seq, i) IN
       forEach(r.seq, r.i + 1, Append(log, seq[i]), fuel - 1)

\* emit(eventType, eventData) for each event of a handler, in their order
RECURSIVE emitAll(_, _, _, _)
emitAll(listeners, events, k, acc) ==
  IF k > Len(events) \/ acc.diverged THEN [listeners |-> listeners, out |-> acc]
  ELSE LET e == events[k]
           r == forEach(listeners[e.topic], 1, << >>, MaxDeliver) IN
       emitAll([listeners EXCEPT ![e.topic] = r.seq], events, k + 1,
               [acc EXCEPT
                  !.log = @ \o [j \in 1..Len(r.log) |->
                                 [listener |-> r.log[j], event |-> k]],
                  !.diverged = r.diverged])

\* the deliveries of the events that the run of this step emits: those of
\* last'.events after the first `before`
DeliverAfter(before) ==
  LET d == emitAll(eventListeners, last'.events, before + 1,
                   [NothingDelivered EXCEPT !.first = before + 1]) IN
  /\ eventListeners' = d.listeners
  /\ delivered' = d.out

Deliver == DeliverAfter(0)

\* the initial value of private config (tenths; Hz)
DefaultConfig ==
  [masterVolume |-> Num(4), sustain |-> Num(7), release |-> Num(3),
   filterFrequency |-> Num(4000)]

Init ==
  /\ isInitialized = FALSE
  /\ audioContext = "null"
  /\ playingNotes = EmptyMap
  /\ running = [n \in NoteIds |-> 0]
  /\ pending = << >>
  /\ destroyPc = "idle"
  /\ last = Idle
  /\ config = DefaultConfig
  /\ masterGainNode = FALSE
  /\ compressorNode = FALSE
  /\ filterNode = FALSE
  /\ cleanupTimer = FALSE
  /\ intervals = << >>
  /\ lastCleanupTime = 0
  /\ now = Epoch
  /\ ctxCreated = 0
  /\ eventListeners = NoListeners
  /\ delivered = NothingDelivered

\* the running oscillators that no entry of the map refers to
RECURSIVE leaked(_, _, _)
leaked(map, run, i) ==
  IF i > Len(NoteOrder) THEN 0
  ELSE LET n == NoteOrder[i] IN
       run[n] - (IF has(map, n) THEN 1 ELSE 0) + leaked(map, run, i + 1)

\* the handler that ran last has returned to the event loop; the next task
\* (a call by the application, a timer, a settled promise) starts after that.
\* `running` is the platform's state, which the service never reads: the
\* model follows the service up to the first oscillator that is left running
\* with no Map entry, and not beyond.
Return ==
  /\ last # Idle
  /\ leaked(playingNotes, running, 1) = 0
  /\ last' = Idle
  /\ UNCHANGED << isInitialized, audioContext, playingNotes, running, pending,
                  destroyPc, config, graphVars, watchdogVars, clockVars >>
  /\ Deliver

(* ------------------------------------------------------------ initialize *)

\* the statements of initialize that can throw, in their order: failAt names
\* the first one that does ("none": none does)
InitStages ==
  << "AudioContext", "createGain", "compressor", "createBiquadFilter",
     "connect", "none" >>
stageOf(failAt) == CHOOSE i \in 1..Len(InitStages) : InitStages[i] = failAt
\* the statement `stage` was run to its end before the one that throws
passed(stage, failAt) == stageOf(failAt) > stageOf(stage)

\* this.config = { ...this.config, ...config }: the keys that config has
\* replace those of this.config, as they are
merge(old, cfg) ==
  [f \in DOMAIN old |-> IF cfg[f].k = "absent" THEN old[f] ELSE cfg[f]]

NoConfig ==
  [masterVolume |-> Absent, sustain |-> Absent, release |-> Absent,
   filterFrequency |-> Absent]

alreadyInitialized_never == FALSE
\* if (this.isInitialized) return true
alreadyInitialized == isInitialized

built_always(failAt) == TRUE
\* this.isInitialized = true is reached when nothing before it threw
built(failAt) == failAt = "none"

\* startPeriodicCleanup(): this.cleanupTimer = setInterval(..., 10000)
startPeriodicCleanup ==
  /\ cleanupTimer' = TRUE
  /\ intervals' = Append(intervals, now + cleanupInterval)

\* the assignments to gain.value and frequency.value made by initialize
initialValues(c) ==
  << [node |-> "masterGain", call |-> "value=", value |-> c.masterVolume, at |-> 0],
     [node |-> "filter", call |-> "value=", value |-> c.filterFrequency, at |-> 0] >>

\* initialize(cfg): no await inside, so it runs as one block
Initialize(cfg, failAt) ==
  /\ last = Idle
  /\ IF alreadyInitialized
       THEN /\ failAt = "none"
            /\ UNCHANGED << isInitialized, audioContext, config, graphVars,
                            watchdogVars, ctxCreated >>
            /\ last' = Result("initialize", "-", "true", << >>, {}, {}, {})
       ELSE /\ config' = merge(config, cfg)
            /\ audioContext' = IF passed("AudioContext", failAt)
                                 THEN "running" ELSE audioContext
            /\ ctxCreated' = IF passed("AudioContext", failAt)
                               THEN now ELSE ctxCreated
            /\ masterGainNode' = (masterGainNode \/ passed("createGain", failAt))
            /\ compressorNode' = (compressorNode \/ passed("compressor", failAt))
            /\ filterNode' = (filterNode \/ passed("createBiquadFilter", failAt))
            /\ isInitialized' = built(failAt)
            /\ IF failAt = "none"
                 THEN /\ startPeriodicCleanup
                      /\ UNCHANGED lastCleanupTime
                      /\ last' = [Result("initialize", "-", "true",
                                         << StateChange >>, {}, {}, {})
                                    EXCEPT !.calls = initialValues(config'),
                                           !.timers = 1]
                 ELSE /\ UNCHANGED watchdogVars
                      /\ last' = Result("initialize", "-", "false",
                                        << ErrorEv("AUDIO_INIT_FAILED") >>, {}, {},
                                        IF failAt = "AudioContext"
                                          THEN {"ctor"} ELSE {"node"})
  /\ UNCHANGED << playingNotes, running, pending, destroyPc, now >>
  /\ Deliver

(* -------------------------------------------------------------- stopNote *)

\* stopNote that leaves the entry in the map, marked as stopping
stopNote_keepsEntry(map, run, ctx, n, stopThrows) ==
  IF ~has(map, n) \/ ctx = "null"
    THEN [ret |-> "false", map |-> map, run |-> run, events |-> << >>,
          stops |-> {}, threw |-> {}]
  ELSE IF map[n].state = "stopping"
    THEN [ret |-> "true", map |-> map, run |-> run, events |-> << >>,
          stops |-> {}, threw |-> {}]
  ELSE [ret |-> "true",
        map |-> [map EXCEPT ![n].state = "stopping"],
        run |-> [run EXCEPT ![n] = @ - 1],
        events |-> << NoteEnd(n) >>,
        stops |-> {n},
        threw |-> IF stopThrows THEN {"stop"} ELSE {}]

\* stopNote that reports an absent note as stopped
stopNote_absentTrue(map, run, ctx, n, stopThrows) ==
  IF ~has(map, n) \/ ctx = "null"
    THEN [ret |-> "true", map |-> map, run |-> run,
          events |-> << NoteEnd(n) >>, stops |-> {}, threw |-> {}]
  ELSE [ret |-> "true",
        map |-> delete(map, n),
        run |-> [run EXCEPT ![n] = @ - 1],
        events |-> << NoteEnd(n) >>,
        stops |-> {n},
        threw |-> IF stopThrows THEN {"stop"} ELSE {}]

\* stopNote without the inner try: a throwing source.stop ends in the outer
\* catch (delete, error event, false)
stopNote_noInnerTry(map, run, ctx, n, stopThrows) ==
  IF ~has(map, n) \/ ctx = "null"
    THEN [ret |-> "false", map |-> map, run |-> run, events |-> << >>,
          stops |-> {}, threw |-> {}]
  ELSE IF stopThrows
    THEN [ret |-> "false", map |-> delete(map, n),
          run |-> [run EXCEPT ![n] = @ - 1],
          events |-> << ErrorEv("AUDIO_PLAYBACK_FAILED") >>,
          stops |-> {n}, threw |-> {"stop"}]
  ELSE [ret |-> "true",
        map |-> delete(map, n),
        run |-> [run EXCEPT ![n] = @ - 1],
        events |-> << NoteEnd(n) >>,
        stops |-> {n},
        threw |-> {}]

\* the outcome of one stopNote(n) on (map, run) with context ctx; stopThrows:
\* source.stop(currentTime) throws
stopNote(map, run, ctx, n, stopThrows) ==
  IF ~has(map, n) \/ ctx = "null"
    THEN [ret |-> "false", map |-> map, run |-> run, events |-> << >>,
          stops |-> {}, threw |-> {}]
  ELSE IF map[n].state = "stopping"
    THEN [ret |-> "true", map |-> map, run |-> run, events |-> << >>,
          stops |-> {}, threw |-> {}]
  ELSE [ret |-> "true",
        map |-> delete(map, n),
        run |-> [run EXCEPT ![n] = @ - 1],
        events |-> << NoteEnd(n) >>,
        stops |-> {n},
        threw |-> IF stopThrows THEN {"stop"} ELSE {}]

\* stopNote that fades the voice out over envelope.release before it stops
\* the source
stopCalls_releaseRamp(cfg, stopped, t) ==
  IF stopped = {} THEN << >>
  ELSE << [node |-> "gain", call |-> "exponentialRampToValueAtTime",
           value |-> Num(127000), at |-> t * 1000 + cfg.release.v * 100],
          [node |-> "source", call |-> "stop", value |-> Absent,
           at |-> t * 1000 + cfg.release.v * 100] >>

\* the calls of stopNote on the nodes of the voices it stopped:
\* playingNote.source.stop(currentTime), line 305; `at` is in milliseconds
stopCalls(cfg, stopped, t) ==
  IF stopped = {} THEN << >>
  ELSE << [node |-> "source", call |-> "stop", value |-> Absent,
           at |-> t * 1000] >>

\* the suspended calls of startNote, with those for noteId n marked as having
\* seen a call of stopNote(n) (stopCalled is not state of the program)
noted(calls, n) ==
  [i \in 1..Len(calls) |->
     IF calls[i].noteId = n THEN [calls[i] EXCEPT !.stopCalled = TRUE]
     ELSE calls[i]]

StopNote(n, stopThrows) ==
  LET r == stopNote(playingNotes, running, audioContext, n, stopThrows) IN
  /\ last = Idle
  /\ stopThrows => r.threw # {}
  /\ playingNotes' = r.map
  /\ running' = r.run
  /\ pending' = noted(pending, n)
  /\ last' = [Result("stopNote", n, r.ret, r.events, {}, r.stops, r.threw)
              EXCEPT !.calls = stopCalls(config, r.stops, currentTime)]
  /\ UNCHANGED << isInitialized, audioContext, destroyPc,
                  config, graphVars, watchdogVars, clockVars >>
  /\ Deliver

\* the caller that has just been told that stopNote(n) stopped n calls
\* stopNote(n) again at once
StopNoteAgain(stopThrows) ==
  LET n == last.noteId
      r == stopNote(playingNotes, running, audioContext, n, stopThrows) IN
  /\ last.op = "stopNote"
  /\ last.ret = "true"
  /\ stopThrows => r.threw # {}
  /\ playingNotes' = r.map
  /\ running' = r.run
  /\ pending' = noted(pending, n)
  /\ last' = [Result("stopNote/again", n, r.ret, r.events, {}, r.stops,
                     r.threw)
              EXCEPT !.calls = stopCalls(config, r.stops, currentTime)]
  /\ UNCHANGED << isInitialized, audioContext, destroyPc,
                  config, graphVars, watchdogVars, clockVars >>
  /\ Deliver

(* ---------------------------------------------------------- stopAllNotes *)

\* Array.from(keys).map(stopNote): stopNote for every key, one after the
\* other; T: the keys whose source.stop throws
RECURSIVE stopEach(_, _, _, _, _)
stopEach(keys, acc, ctx, T, i) ==
  IF i > Len(keys) THEN acc
  ELSE LET r == stopNote(acc.map, acc.run, ctx, keys[i], keys[i] \in T) IN
       stopEach(keys,
                [map |-> r.map, run |-> r.run,
                 events |-> acc.events \o r.events,
                 stops |-> acc.stops \cup r.stops,
                 threw |-> acc.threw \cup r.threw],
                ctx, T, i + 1)

keysOf_dropFirst(map) ==
  LET all == SelectSeq(NoteOrder, LAMBDA n : n \in DOMAIN map) IN
  IF all = << >> THEN all ELSE Tail(all)

\* the keys of the map as a sequence (listed in NoteOrder; the model does not
\* keep the insertion order of the Map)
keysOf(map) == SelectSeq(NoteOrder, LAMBDA n : n \in DOMAIN map)

stopAllNotes(map, run, ctx, T) ==
  stopEach(keysOf(map),
           [map |-> map, run |-> run, events |-> << >>, stops |-> {},
            threw |-> {}],
           ctx, T, 1)

Throwing(map) == { T \in SUBSET (DOMAIN map) : Cardinality(T) <= MaxThrows }

StopAllNotes ==
  /\ last = Idle
  /\ \E T \in Throwing(playingNotes) :
       LET r == stopAllNotes(playingNotes, running, audioContext, T) IN
       /\ playingNotes' = r.map
       /\ running' = r.run
       /\ last' = Result("stopAllNotes", "-", "void", r.events, {}, r.stops,
                         r.threw)
  /\ UNCHANGED << isInitialized, audioContext, pending, destroyPc,
                  config, graphVars, watchdogVars, clockVars >>
  /\ Deliver

(* ------------------------------------------------------------- startNote *)

PlaybackFailed == ErrorEv("AUDIO_PLAYBACK_FAILED")

\* if (!this.isInitialized || !this.audioContext) throw
notInitialized == ~isInitialized \/ audioContext = "null"

atCapacity_offByOne(map) == size(map) > maxConcurrentNotes

\* if (this.playingNotes.size >= maxConcurrentNotes) return false
atCapacity(map) == size(map) >= maxConcurrentNotes

contextClosed_nullOnly == audioContext = "null"

\* if (!this.audioContext || this.audioContext.state === 'closed') return false
contextClosed == audioContext = "null" \/ audioContext = "closed"

\* A gain is a whole number of 1/127000000: 0.001 is 127000.
\* the product of two numbers, NaN when one is
product(a, b) == IF a.k = "nan" \/ b.k = "nan" THEN NaN ELSE Num(a.v * b.v)

\* Math.max(0.1, Math.min(1.0, velocity / 127)), in 1/1270
normalizedVelocity(velocity) ==
  Math_max(Num(127), Math_min(Num(1270), product(velocity, Num(10))))

\* Math.max(0.6, 1.0 - (this.playingNotes.size * 0.05)), in 1/100
volumeReduction_none(n) == Num(100)
volumeReduction(n) == Math_max(Num(60), Num(100 - n * 5))

\* normalizedVelocity * 0.15 * volumeReduction
baseGain(velocity, n) ==
  product(product(normalizedVelocity(velocity), Num(150)), volumeReduction(n))

\* envelope.attack and envelope.decay, in milliseconds
attack == 50
decay == 200

\* the ADSR schedule on the gain of the new voice, lines 235-242; sustain is
\* in tenths and t in seconds
schedule(cfg, velocity, n, t) ==
  LET peakGain == baseGain(velocity, n)
      sustainGain == IF cfg.sustain.k = "nan" \/ peakGain.k = "nan" THEN NaN
                     ELSE Num((peakGain.v * cfg.sustain.v) \div 10)
  IN << [node |-> "gain", call |-> "setValueAtTime", value |-> Num(127000),
         at |-> t * 1000],
        [node |-> "gain", call |-> "exponentialRampToValueAtTime",
         value |-> peakGain, at |-> t * 1000 + attack],
        [node |-> "gain", call |-> "exponentialRampToValueAtTime",
         value |-> sustainGain, at |-> t * 1000 + attack + decay] >>

\* allocation that records the voice without announcing it
allocate_noEvent(op, n, c, createThrows) ==
  IF audioContext = "null" \/ ~masterGainNode \/ createThrows
    THEN /\ last' = Result(op, n, "false", c.events \o << PlaybackFailed >>,
                           {}, c.stops,
                           IF createThrows THEN {"create"} ELSE {})
         /\ UNCHANGED << playingNotes, running >>
    ELSE /\ playingNotes' = set(playingNotes, n, PlayingNote)
         /\ running' = [running EXCEPT ![n] = @ + 1]
         /\ last' = Result(op, n, "true", c.events, {n}, c.stops, {})

\* allocation that records the voice before the call that throws
allocate_entryOnThrow(op, n, c, createThrows) ==
  IF audioContext = "null" \/ ~masterGainNode
    THEN /\ last' = Result(op, n, "false", c.events \o << PlaybackFailed >>,
                           {}, c.stops, {})
         /\ UNCHANGED << playingNotes, running >>
    ELSE /\ playingNotes' = set(playingNotes, n, PlayingNote)
         /\ running' = [running EXCEPT ![n] = @ + 1]
         /\ last' = IF createThrows
                      THEN Result(op, n, "false",
                                  c.events \o << PlaybackFailed >>, {n}, c.stops,
                                  {"create"})
                      ELSE Result(op, n, "true", c.events \o << NoteStart(n) >>,
                                  {n}, c.stops, {})

\* lines 218-266 of startNote, run either straight away or after the settle
\* delay (op tells which): c is what the call has done so far; createThrows:
\* createOscillator, createGain, a gain schedule call or start throws.  With
\* the context released meanwhile, this.audioContext.createOscillator() is a
\* TypeError, and so is gainNode.connect(this.masterGainNode) without a master
\* gain node; all end in the catch block.
allocate(op, n, c, createThrows) ==
  IF audioContext = "null" \/ ~masterGainNode \/ createThrows
    THEN /\ last' = [Result(op, n, "false", c.events \o << PlaybackFailed >>,
                            {}, c.stops,
                            IF createThrows THEN {"create"} ELSE {})
                     EXCEPT !.arg = c.velocity]
         /\ UNCHANGED << playingNotes, running >>
    ELSE /\ playingNotes' = set(playingNotes, n, PlayingNote)
         /\ running' = [running EXCEPT ![n] = @ + 1]
         /\ last' = [Result(op, n, "true", c.events \o << NoteStart(n) >>,
                            {n}, c.stops, {})
                     EXCEPT !.arg = c.velocity,
                            !.calls = schedule(config, c.velocity,
                                               size(playingNotes), currentTime)]

\* a call of startNote that has done nothing yet
NothingYet(velocity) == [events |-> << >>, stops |-> {}, velocity |-> velocity]

\* velocity: number = 100
DefaultVelocity == Num(100)

\* startNote(n) up to its first await (or to its end when it does not await)
StartNoteWith(n, velocity, stopThrows, createThrows) ==
  /\ last = Idle
  /\ UNCHANGED << isInitialized, audioContext, destroyPc, config, graphVars,
                  watchdogVars, clockVars >>
  /\ IF notInitialized \/ ~isSupportedNote(n)
       THEN /\ ~stopThrows /\ ~createThrows
            /\ last' = [Result("startNote", n, "false", << PlaybackFailed >>,
                               {}, {}, {}) EXCEPT !.arg = velocity]
            /\ UNCHANGED << playingNotes, running, pending >>
     ELSE IF atCapacity(playingNotes) \/ contextClosed
       THEN /\ ~stopThrows /\ ~createThrows
            /\ last' = [Result("startNote", n, "false", << >>, {}, {}, {})
                        EXCEPT !.arg = velocity]
            /\ UNCHANGED << playingNotes, running, pending >>
     ELSE IF has(playingNotes, n)
       THEN LET r == stopNote(playingNotes, running, audioContext, n, stopThrows) IN
            /\ ~createThrows
            /\ Len(pending) < MaxPending
            /\ playingNotes' = r.map
            /\ running' = r.run
            /\ pending' = Append(pending,
                                 [noteId |-> n, events |-> r.events,
                                  stops |-> r.stops, velocity |-> velocity,
                                  stopCalled |-> FALSE])
            /\ last' = [Result("startNote", n, "pending", r.events, {},
                               r.stops, r.threw) EXCEPT !.arg = velocity]
       ELSE /\ ~stopThrows
            /\ allocate("startNote", n, NothingYet(velocity), createThrows)
            /\ UNCHANGED pending
  /\ Deliver

\* startNote(n), with the default velocity
StartNote(n, stopThrows, createThrows) ==
  StartNoteWith(n, DefaultVelocity, stopThrows, createThrows)

\* the 10 ms timer of the oldest suspended startNote fires
ResumeStartNote(createThrows) ==
  /\ last = Idle
  /\ pending # << >>
  /\ (audioContext = "null" \/ ~masterGainNode) => ~createThrows
  /\ allocate("startNote/resumed", Head(pending).noteId, Head(pending),
              createThrows)
  /\ pending' = Tail(pending)
  /\ UNCHANGED << isInitialized, audioContext, destroyPc, config, graphVars,
                  watchdogVars, clockVars >>
  /\ DeliverAfter(Len(Head(pending).events))

(* --------------------------------------------------------------- destroy *)

\* if (this.cleanupTimer) { clearInterval(this.cleanupTimer); ... = null }:
\* the handle is that of the interval set last
clearCleanupTimer ==
  /\ cleanupTimer' = FALSE
  /\ intervals' = IF cleanupTimer /\ intervals # << >>
                    THEN SubSeq(intervals, 1, Len(intervals) - 1)
                    ELSE intervals

\* lines 571-583 of destroy; the oscillators of the released context are gone
release ==
  /\ audioContext' = "null"
  /\ masterGainNode' = FALSE
  /\ compressorNode' = FALSE
  /\ filterNode' = FALSE
  /\ playingNotes' = EmptyMap
  /\ running' = [n \in NoteIds |-> 0]
  /\ isInitialized' = FALSE
  /\ clearCleanupTimer
  /\ eventListeners' = NoListeners
  /\ delivered' = NothingDelivered
  /\ destroyPc' = "idle"
  /\ last' = Result("destroy", "-", "void", << >>, {}, {}, {})

\* destroy() up to `await this.stopAllNotes()`
DestroyBegin ==
  /\ last = Idle
  /\ destroyPc = "idle"
  /\ \E T \in Throwing(playingNotes) :
       LET r == stopAllNotes(playingNotes, running, audioContext, T) IN
       /\ playingNotes' = r.map
       /\ running' = r.run
       /\ last' = Result("destroy", "-", "pending", r.events, {}, r.stops, r.threw)
  /\ destroyPc' = "stopAllNotes"
  /\ UNCHANGED << isInitialized, audioContext, pending, config, graphVars,
                  watchdogVars, clockVars >>
  /\ Deliver

\* destroy() from there to `await this.audioContext.close()`, or to its end
\* when there is no context to close; closing the context ends its
\* oscillators.  close: what the promise of close() will do: "resolves";
\* "rejects", the context staying as it is; "rejects/closed", the context
\* closed all the same.
CloseOutcomes == { "resolves", "rejects", "rejects/closed" }

DestroyClose(close) ==
  /\ last = Idle
  /\ destroyPc = "stopAllNotes"
  /\ IF audioContext # "null"
       THEN /\ IF close = "rejects"
                 THEN UNCHANGED << audioContext, running >>
                 ELSE /\ audioContext' = "closed"
                      /\ running' = [n \in NoteIds |-> 0]
            /\ destroyPc' = IF close = "resolves" THEN "close" ELSE "closeRejected"
            /\ last' = Result("destroy", "-", "pending", << >>, {}, {}, {})
            /\ UNCHANGED << isInitialized, playingNotes, graphVars, watchdogVars,
                            listenerVars >>
       ELSE /\ close = "resolves"
            /\ release
            /\ UNCHANGED lastCleanupTime
  /\ UNCHANGED << pending, config, clockVars >>

\* destroy() after close() has resolved
DestroyFinish ==
  /\ last = Idle
  /\ destroyPc = "close"
  /\ release
  /\ UNCHANGED << pending, config, lastCleanupTime, clockVars >>

\* destroy() after close() has rejected: the catch block (line 593-595)
DestroyFailed ==
  /\ last = Idle
  /\ destroyPc = "closeRejected"
  /\ destroyPc' = "idle"
  /\ last' = [Result("destroy", "-", "void", << >>, {}, {}, {})
                EXCEPT !.threw = {"close"}]
  /\ UNCHANGED << isInitialized, audioContext, noteVars, config, graphVars,
                  watchdogVars, clockVars >>
  /\ Deliver

(* --------------------------------------------------------------- setters *)

\* what a void method did
Done(op) == Result(op, "-", "void", << >>, {}, {}, {})

\* the one call that schedules a ramp on an AudioParam, ending rampTime
\* after the audio time t (seconds); `at` is in milliseconds
Ramp(node, value, t) ==
  [node |-> node, call |-> "linearRampToValueAtTime", value |-> value,
   at |-> t * 1000 + rampTime]

clampVolume_none(volume) == volume
\* Math.max(0, Math.min(1, volume)), in tenths
clampVolume(volume) == Math_max(Num(0), Math_min(Num(10), volume))

\* Math.max(100, Math.min(20000, frequency))
clampFrequency(frequency) == Math_max(Num(100), Math_min(Num(20000), frequency))

\* setMasterVolume(volume).  rampThrows: linearRampToValueAtTime throws, which
\* setMasterVolume passes on to its caller (a value that is not finite)
SetMasterVolume(volume, rampThrows) ==
  LET clampedVolume == clampVolume(volume)
      t == IF audioContext = "null" THEN 0 ELSE currentTime IN
  /\ last = Idle
  /\ rampThrows => (masterGainNode /\ clampedVolume.k = "nan")
  /\ config' = [config EXCEPT !.masterVolume = clampedVolume]
  /\ last' = [Done("setMasterVolume")
                EXCEPT !.arg = volume,
                       !.ret = IF rampThrows THEN "throws" ELSE "void",
                       !.threw = IF rampThrows THEN {"ramp"} ELSE {},
                       !.calls = IF masterGainNode
                                   THEN << Ramp("masterGain", clampedVolume, t) >>
                                   ELSE << >>]
  /\ UNCHANGED << isInitialized, audioContext, noteVars, destroyPc, graphVars,
                  watchdogVars, clockVars >>
  /\ Deliver

\* setEnvelope(envelope): { ...this.config.envelope, ...envelope }
\* a setEnvelope that builds the configuration anew from the defaults
withEnvelope_fromDefaults(cfg, sustain, releaseTime) ==
  [DefaultConfig EXCEPT
     !.sustain = IF sustain.k = "absent" THEN cfg.sustain ELSE sustain,
     !.release = IF releaseTime.k = "absent" THEN cfg.release ELSE releaseTime]

\* this.config.envelope = { ...this.config.envelope, ...envelope }
withEnvelope(cfg, sustain, releaseTime) ==
  [cfg EXCEPT
     !.sustain = IF sustain.k = "absent" THEN @ ELSE sustain,
     !.release = IF releaseTime.k = "absent" THEN @ ELSE releaseTime]

SetEnvelope(sustain, releaseTime) ==
  /\ last = Idle
  /\ config' = withEnvelope(config, sustain, releaseTime)
  /\ last' = [Done("setEnvelope") EXCEPT !.arg = sustain]
  /\ UNCHANGED << isInitialized, audioContext, noteVars, destroyPc, graphVars,
                  watchdogVars, clockVars >>
  /\ Deliver

\* setFilterFrequency(frequency)
SetFilterFrequency(frequency, rampThrows) ==
  LET clampedFreq == clampFrequency(frequency)
      graph == filterNode /\ audioContext # "null" IN
  /\ last = Idle
  /\ rampThrows => (graph /\ clampedFreq.k = "nan")
  /\ config' = [config EXCEPT !.filterFrequency = clampedFreq]
  /\ last' = [Done("setFilterFrequency")
                EXCEPT !.arg = frequency,
                       !.ret = IF rampThrows THEN "throws" ELSE "void",
                       !.threw = IF rampThrows THEN {"ramp"} ELSE {},
                       !.calls = IF graph
                                   THEN << Ramp("filter", clampedFreq, currentTime) >>
                                   ELSE << >>]
  /\ UNCHANGED << isInitialized, audioContext, noteVars, destroyPc, graphVars,
                  watchdogVars, clockVars >>
  /\ Deliver

(* -------------------------------------------------------------- watchdog *)

gateOpen_never(t, lastT) == FALSE
gateOpen_atLeast(t, lastT) == t - lastT >= cleanupGate
\* if (now - this.lastCleanupTime > 30000)
gateOpen(t, lastT) == t - lastT > cleanupGate

\* if (now - playingNote.startTime * 1000 > 10000): t is Date.now() and
\* startTime is the audioContext.currentTime of the start (both sides of the
\* comparison are in seconds here, not milliseconds)
stale(t, playingNote) == t - playingNote.startTime > staleAfter

staleNotes(map, t) == SelectSeq(keysOf(map), LAMBDA n : stale(t, map[n]))

ReapWarn(n) == [text |-> "reap", noteId |-> n]
ReapFailedWarn(n) == [text |-> "reap failed", noteId |-> n]

reapWarns_silentOnThrow(n, stopThrows) ==
  IF stopThrows THEN << >> ELSE << ReapWarn(n) >>
\* console.warn(`清理過期音符: ...`), and in the catch block of source.stop()
\* console.warn(`清理過期音符失敗: ...`)
reapWarns(n, stopThrows) ==
  IF stopThrows THEN << ReapWarn(n), ReapFailedWarn(n) >> ELSE << ReapWarn(n) >>

\* staleNotes.forEach: warn, source.stop() (T: the noteIds for which it
\* throws), this.playingNotes.delete(noteId)
RECURSIVE reap(_, _, _, _)
reap(keys, acc, T, i) ==
  IF i > Len(keys) THEN acc
  ELSE LET n == keys[i] IN
       reap(keys,
            [map |-> delete(acc.map, n),
             run |-> [acc.run EXCEPT ![n] = @ - 1],
             warns |-> acc.warns \o reapWarns(n, n \in T),
             reaped |-> acc.reaped \cup {[noteId |-> n, voice |-> acc.map[n]]},
             stops |-> acc.stops \cup {n},
             threw |-> acc.threw \cup (IF n \in T THEN {"stop"} ELSE {})],
            T, i + 1)

\* the callback of an interval timer that is due: performPeriodicCleanup()
Tick(T) ==
  /\ last = Idle
  /\ \E i \in 1..Len(intervals) :
       /\ intervals[i] = now
       /\ intervals' = [intervals EXCEPT ![i] = @ + cleanupInterval]
  /\ IF gateOpen(now, lastCleanupTime)
       THEN LET keys == staleNotes(playingNotes, now)
                r == reap(keys,
                          [map |-> playingNotes, run |-> running,
                           warns |-> << >>, reaped |-> {}, stops |-> {},
                           threw |-> {}],
                          T, 1) IN
            /\ T \subseteq { keys[i] : i \in 1..Len(keys) }
            /\ playingNotes' = r.map
            /\ running' = r.run
            /\ lastCleanupTime' = now
            /\ last' = [Result("cleanup", "-", "pass", << >>, {}, r.stops, r.threw)
                          EXCEPT !.warns = r.warns, !.reaped = r.reaped]
       ELSE /\ T = {}
            /\ last' = Result("cleanup", "-", "skip", << >>, {}, {}, {})
            /\ UNCHANGED << playingNotes, running, lastCleanupTime >>
  /\ UNCHANGED << isInitialized, audioContext, pending, destroyPc, config,
                  graphVars, cleanupTimer, clockVars >>
  /\ Deliver

\* d seconds pass with no task running, up to `until` seconds after the start
\* of the program.  An interval timer fires when it is due, the settle delay
\* (10 ms) and close() end within the second.
AdvanceTime(d, until) ==
  /\ last = Idle
  /\ pending = << >>
  /\ destroyPc = "idle"
  /\ now + d <= Epoch + until
  /\ \A i \in 1..Len(intervals) : intervals[i] >= now + d
  /\ now' = now + d
  /\ UNCHANGED << isInitialized, audioContext, noteVars, destroyPc, last,
                  config, graphVars, watchdogVars, ctxCreated >>
  /\ Deliver

(* ------------------------------------------------------------------ Next *)

Next ==
  \/ Return
  \/ \E failAt \in { InitStages[i] : i \in 1..Len(InitStages) } :
       Initialize(NoConfig, failAt)
  \/ \E n \in NoteIds, stopThrows, createThrows \in BOOLEAN :
       StartNote(n, stopThrows, createThrows)
  \/ \E createThrows \in BOOLEAN : ResumeStartNote(createThrows)
  \/ \E n \in NoteIds, stopThrows \in BOOLEAN : StopNote(n, stopThrows)
  \/ \E stopThrows \in BOOLEAN : StopNoteAgain(stopThrows)
  \/ StopAllNotes
  \/ DestroyBegin
  \/ \E close \in CloseOutcomes : DestroyClose(close)
  \/ DestroyFinish
  \/ DestroyFailed

Spec == Init /\ [][Next]_vars

\* the noteIds and the steps of time of SpecWatchdog
WatchdogNotes == { "C4", "D4" }
Delays == { 5, 10 }

NextWatchdog ==
  \/ Return
  \/ Initialize(NoConfig, "none")
  \/ \E n \in WatchdogNotes : StartNote(n, FALSE, FALSE)
  \/ ResumeStartNote(FALSE)
  \/ \E n \in WatchdogNotes : StopNote(n, FALSE)
  \/ DestroyBegin
  \/ DestroyClose("resolves")
  \/ DestroyFinish
  \/ \E d \in Delays : AdvanceTime(d, MaxTime)
  \/ \E T \in Throwing(playingNotes) : Tick(T)

SpecWatchdog == Init /\ [][NextWatchdog]_vars

\* the arguments of SpecConfig: volumes and sustain levels in tenths,
\* frequencies in Hz
Volumes == { Num(0 - 5), Num(4), Num(15), NaN }
Sustains == { Absent, Num(20), NaN }
Frequencies == { Num(50), Num(4000), Num(25000), NaN }
Configs ==
  [masterVolume : {Absent, Num(15)}, sustain : {Absent, Num(20)},
   release : {Absent}, filterFrequency : {Absent, Num(50)}]

NextConfig ==
  \/ Return
  \/ \E cfg \in Configs, failAt \in { InitStages[i] : i \in 1..Len(InitStages) } :
       Initialize(cfg, failAt)
  \/ \E volume \in Volumes, rampThrows \in BOOLEAN :
       SetMasterVolume(volume, rampThrows)
  \/ \E sustain \in Sustains : SetEnvelope(sustain, Absent)
  \/ \E frequency \in Frequencies, rampThrows \in BOOLEAN :
       SetFilterFrequency(frequency, rampThrows)
  \/ \E createThrows \in BOOLEAN : StartNote("C4", FALSE, createThrows)
  \/ ResumeStartNote(FALSE)
  \/ StopNote("C4", FALSE)
  \/ DestroyBegin
  \/ \E close \in CloseOutcomes : DestroyClose(close)
  \/ DestroyFinish
  \/ DestroyFailed
  \/ \E d \in Delays : AdvanceTime(d, ConfigTime)

SpecConfig == Init /\ [][NextConfig]_vars

(* ---------------------------------------- specification with subscribers *)

registered == Len(eventListeners["noteStart"]) + Len(eventListeners["noteEnd"])
              + Len(eventListeners["error"])
              + Len(eventListeners["contextStateChange"])

\* addEventListener(eventType, listener)
AddEventListener(eventType, listener) ==
  /\ last = Idle
  /\ registered < MaxListeners
  /\ eventListeners' = [eventListeners EXCEPT
                          ![eventType] = add(eventListeners[eventType], listener)]
  /\ delivered' = NothingDelivered
  /\ last' = [Done("addEventListener") EXCEPT !.noteId = eventType]
  /\ UNCHANGED << isInitialized, audioContext, noteVars, destroyPc, config,
                  graphVars, watchdogVars, clockVars >>

\* removeEventListener(eventType, listener)
RemoveEventListener(eventType, listener) ==
  /\ last = Idle
  /\ eventListeners' = [eventListeners EXCEPT
                          ![eventType] = remove(eventListeners[eventType], listener)]
  /\ delivered' = NothingDelivered
  /\ last' = [Done("removeEventListener") EXCEPT !.noteId = eventType]
  /\ UNCHANGED << isInitialized, audioContext, noteVars, destroyPc, config,
                  graphVars, watchdogVars, clockVars >>

\* the topics that subscribers register for here
EmitTopics == { "noteStart", "noteEnd", "contextStateChange" }

\* the listeners that are registered from outside a delivery
Subscribers == Listeners \ { "late" }

NextEmit ==
  \/ Return
  \/ \E failAt \in { "none", "AudioContext" } : Initialize(NoConfig, failAt)
  \/ StartNote("C4", FALSE, FALSE)
  \/ ResumeStartNote(FALSE)
  \/ StopNote("C4", FALSE)
  \/ \E t \in EmitTopics, l \in Subscribers : AddEventListener(t, l)
  \/ \E t \in EmitTopics, l \in Subscribers : RemoveEventListener(t, l)
  \/ DestroyBegin
  \/ DestroyClose("resolves")
  \/ DestroyFinish

SpecEmit == Init /\ [][NextEmit]_vars

(* ================================================================ claims *)

count(events, e) == Cardinality({ i \in 1..Len(events) : events[i] = e })
playingIn(map, n) == has(map, n) /\ map[n].state = "playing"
allPlaying(map) == \A k \in DOMAIN map : map[k].state = "playing"

\* this step is a call of startNote (its run up to the first await)
StartNoteCalled == last = Idle /\ last'.op = "startNote"
\* this step is a call of stopNote
StopNoteCalled == last'.op = "stopNote" \/ last'.op = "stopNote/again"

\* C1: in every reachable state the live-voice map holds at most
\* maxConcurrentNotes (6) voices, also when startNote calls interleave with
\* other calls during the settle delay.
C1_PolyphonyCap == size(playingNotes) <= maxConcurrentNotes

\* C2: with 6 voices live, startNote for a further supported noteId returns
\* false and leaves the map as it was: the same noteIds are reported by
\* getPlayingNotes(), all in state playing, and no oscillator was stopped.
C2_RejectedAtCap ==
  [][ ( /\ StartNoteCalled
        /\ size(playingNotes) = maxConcurrentNotes
        /\ last'.noteId \in PIANO_FREQUENCIES
        /\ ~has(playingNotes, last'.noteId) )
      => ( /\ last'.ret = "false"
           /\ playingNotes' = playingNotes
           /\ getPlayingNotes' = getPlayingNotes
           /\ allPlaying(playingNotes')
           /\ last'.stops = {}
           /\ running' = running ) ]_vars

C2_Witness ==
  /\ last.op = "startNote" /\ last.ret = "false" /\ last.events = << >>
  /\ isInitialized /\ audioContext = "running"
  /\ size(playingNotes) = maxConcurrentNotes
  /\ last.noteId \in PIANO_FREQUENCIES \ DOMAIN playingNotes
  /\ allPlaying(playingNotes)

\* C3 as stated: whenever X has a live voice, whatever the number of other
\* live voices, startNote(X) on an initialized service with a running context
\* is accepted, and when its settle delay ends (the context and the master
\* gain node still in place, no platform call throwing) it has returned true and emitted noteEnd(X) then
\* noteStart(X), and the map holds one voice for X, created by the call.
C3_ReplaceWhateverTheLoad ==
  [][ /\ ( /\ StartNoteCalled
           /\ isInitialized /\ audioContext = "running"
           /\ has(playingNotes, last'.noteId) )
         => last'.ret = "pending"
      /\ ( /\ last'.op = "startNote/resumed"
           /\ audioContext # "null" /\ masterGainNode
           /\ "create" \notin last'.threw )
         => ( /\ last'.ret = "true"
              /\ last'.events = << NoteEnd(last'.noteId), NoteStart(last'.noteId) >>
              /\ playingIn(playingNotes', last'.noteId) ) ]_vars

\* C3 amended: the same with fewer than 6 voices live when startNote(X) is
\* called; the call then stops the old voice at once (one noteEnd(X), entry
\* removed) and, after the settle delay, adds the one voice for X that it
\* created, leaving the other entries alone.  With 6 or more voices live
\* startNote(X) returns false and the map keeps the old voice of X.
C3_ReplaceBelowCap ==
  [][ /\ ( /\ StartNoteCalled
           /\ isInitialized /\ audioContext = "running"
           /\ has(playingNotes, last'.noteId)
           /\ size(playingNotes) < maxConcurrentNotes )
         => ( /\ last'.ret = "pending"
              /\ last'.events = << NoteEnd(last'.noteId) >>
              /\ last'.stops = {last'.noteId}
              /\ playingNotes' = delete(playingNotes, last'.noteId)
              /\ pending' = Append(pending,
                                   [noteId |-> last'.noteId,
                                    events |-> last'.events,
                                    stops |-> last'.stops,
                                    velocity |-> last'.arg,
                                    stopCalled |-> FALSE]) )
      /\ ( /\ StartNoteCalled
           /\ isInitialized /\ audioContext = "running"
           /\ has(playingNotes, last'.noteId)
           /\ size(playingNotes) >= maxConcurrentNotes )
         => ( /\ last'.ret = "false" /\ last'.events = << >>
              /\ playingNotes' = playingNotes )
      /\ ( /\ last'.op = "startNote/resumed"
           /\ audioContext # "null" /\ masterGainNode
           /\ "create" \notin last'.threw )
         => ( /\ last'.ret = "true"
              /\ last'.events = << NoteEnd(last'.noteId), NoteStart(last'.noteId) >>
              /\ last'.alloc = {last'.noteId}
              /\ playingIn(playingNotes', last'.noteId)
              /\ \A k \in NoteIds \ {last'.noteId} :
                   /\ has(playingNotes', k) <=> has(playingNotes, k)
                   /\ has(playingNotes, k) => playingNotes'[k] = playingNotes[k] ) ]_vars

C3_Witness ==
  /\ last.op = "startNote/resumed" /\ last.ret = "true"
  /\ last.events = << NoteEnd(last.noteId), NoteStart(last.noteId) >>
  /\ isNotePlaying(last.noteId)
  /\ size(playingNotes) = maxConcurrentNotes - 1

\* C4: at every instant every noteId has at most one oscillator that has been
\* started and not stopped, also when startNote calls for the same noteId
\* overlap across the settle delay.
C4_OneOscillatorPerNote == \A n \in NoteIds : running[n] <= 1

\* C5 as stated: stopNote(X) called again right after a stopNote(X) that
\* returned true (with one noteEnd(X)) returns true and emits nothing.
C5_SecondStopTrue ==
  [][ (last.op = "stopNote" /\ last.ret = "true" /\ last'.op = "stopNote/again")
      => ( /\ last.events = << NoteEnd(last.noteId) >>
           /\ last'.ret = "true"
           /\ last'.events = << >> ) ]_vars

\* C5 amended: the first call returns true with one noteEnd(X); the second
\* returns false, emits nothing and changes nothing.
C5_SecondStopFalse ==
  [][ (last.op = "stopNote" /\ last.ret = "true" /\ last'.op = "stopNote/again")
      => ( /\ last.events = << NoteEnd(last.noteId) >>
           /\ last'.noteId = last.noteId
           /\ last'.ret = "false"
           /\ last'.events = << >>
           /\ last'.stops = {}
           /\ playingNotes' = playingNotes
           /\ running' = running ) ]_vars

C5_Witness ==
  /\ last.op = "stopNote/again" /\ last.ret = "false" /\ last.events = << >>
  /\ playingNotes # EmptyMap

\* C6: stopNote(X) when X has no live voice returns false, emits no event on
\* any topic and leaves the map unchanged.
C6_StopAbsent ==
  [][ (StopNoteCalled /\ ~has(playingNotes, last'.noteId))
      => ( /\ last'.ret = "false"
           /\ last'.events = << >>
           /\ last'.stops = {}
           /\ playingNotes' = playingNotes ) ]_vars

C6_Witness ==
  /\ last.op = "stopNote" /\ last.ret = "false"
  /\ ~has(playingNotes, last.noteId)
  /\ last.noteId \in PIANO_FREQUENCIES
  /\ playingNotes # EmptyMap

\* C7: when source.stop throws during stopNote(X) for a live X, stopNote
\* still removes X from the map, emits exactly one noteEnd(X) and no error
\* event, and returns true; and after any attempted stop of a voice by
\* stopNote, stopAllNotes or destroy the map holds no entry for it.
C7_StopThrowSwallowed ==
  /\ (last.op = "stopNote" /\ "stop" \in last.threw)
       => ( /\ last.ret = "true"
            /\ last.events = << NoteEnd(last.noteId) >>
            /\ last.stops = {last.noteId}
            /\ ~has(playingNotes, last.noteId) )
  /\ last.op \in {"stopNote", "stopNote/again", "stopAllNotes", "destroy"}
       => /\ last.stops \cap DOMAIN playingNotes = {}
          /\ \A i \in 1..Len(last.events) : last.events[i].topic # "error"

C7_Witness ==
  /\ last.op = "stopNote" /\ "stop" \in last.threw
  /\ playingNotes # EmptyMap

\* C8: after stopAllNotes() getPlayingNotes() is empty, whatever the number
\* of voices live before, and exactly one noteEnd was emitted for each
\* noteId that was live when it was called (and nothing else).
C8_StopAllEmpties ==
  [][ last'.op = "stopAllNotes"
      => ( /\ getPlayingNotes' = {}
           /\ Len(last'.events) = size(playingNotes)
           /\ \A n \in NoteIds :
                count(last'.events, NoteEnd(n)) = IF has(playingNotes, n) THEN 1 ELSE 0 ) ]_vars

C8_Witness ==
  /\ last.op = "stopAllNotes"
  /\ Len(last.events) = maxConcurrentNotes
  /\ getPlayingNotes = {}

\* C9 as stated: startNote on a service that is not initialized, or whose
\* context is closed, returns false, emits no event and leaves the map
\* unchanged.
C9_SilentWhenNotReady ==
  [][ (StartNoteCalled /\ (notInitialized \/ audioContext = "closed"))
      => ( /\ last'.ret = "false"
           /\ last'.events = << >>
           /\ playingNotes' = playingNotes ) ]_vars

\* C9 amended: on a service that is not initialized startNote returns false,
\* emits exactly one error event of kind AUDIO_PLAYBACK_FAILED and leaves the
\* map unchanged; on an initialized service whose context is closed, with a
\* supported noteId, it returns false, emits no event and leaves the map
\* unchanged.
C9_NotReady ==
  [][ /\ (StartNoteCalled /\ notInitialized)
         => ( /\ last'.ret = "false"
              /\ last'.events = << ErrorEv("AUDIO_PLAYBACK_FAILED") >>
              /\ playingNotes' = playingNotes )
      /\ ( /\ StartNoteCalled /\ isInitialized /\ audioContext = "closed"
           /\ last'.noteId \in PIANO_FREQUENCIES )
         => ( /\ last'.ret = "false"
              /\ last'.events = << >>
              /\ playingNotes' = playingNotes ) ]_vars

C9_Witness ==
  /\ last.op = "startNote" /\ last.ret = "false" /\ last.events = << >>
  /\ isInitialized /\ audioContext = "closed"
  /\ last.noteId \in PIANO_FREQUENCIES
  /\ size(playingNotes) < maxConcurrentNotes

\* C10: startNote on an initialized service with a noteId outside the 37
\* supported ones returns false, emits exactly one error event of kind
\* AUDIO_PLAYBACK_FAILED and no noteStart, and leaves the map unchanged.
C10_UnsupportedNote ==
  [][ ( /\ StartNoteCalled
        /\ isInitialized /\ audioContext # "null"
        /\ last'.noteId \notin PIANO_FREQUENCIES )
      => ( /\ Cardinality(PIANO_FREQUENCIES) = 37
           /\ last'.ret = "false"
           /\ last'.events = << ErrorEv("AUDIO_PLAYBACK_FAILED") >>
           /\ last'.alloc = {}
           /\ playingNotes' = playingNotes
           /\ pending' = pending ) ]_vars

C10_Witness ==
  /\ last.op = "startNote" /\ last.ret = "false"
  /\ last.noteId \notin PIANO_FREQUENCIES
  /\ isInitialized /\ audioContext = "running"
  /\ last.events = << ErrorEv("AUDIO_PLAYBACK_FAILED") >>
  /\ playingNotes # EmptyMap

\* this step is a run of startNote: its call, or its resumption after the
\* settle delay
StartNoteRan == last'.op = "startNote" \/ last'.op = "startNote/resumed"

\* C11: startNote(X) on a ready service whose context is not closed, with X
\* supported, X not live and fewer than 6 voices live (no platform call
\* throwing) returns true, adds exactly one entry, for X, in state playing,
\* emits exactly one noteStart(X) and nothing else, and leaves the entries of
\* all other noteIds unchanged; afterwards isNotePlaying(X) holds and
\* getPlayingNotes() contains X.
C11_StartFresh ==
  [][ ( /\ StartNoteCalled
        /\ isReady /\ audioContext # "closed"
        /\ last'.noteId \in PIANO_FREQUENCIES
        /\ ~has(playingNotes, last'.noteId)
        /\ size(playingNotes) < maxConcurrentNotes
        /\ "create" \notin last'.threw )
      => ( /\ last'.ret = "true"
           /\ last'.events = << NoteStart(last'.noteId) >>
           /\ DOMAIN playingNotes' = DOMAIN playingNotes \cup {last'.noteId}
           /\ size(playingNotes') = size(playingNotes) + 1
           /\ playingNotes'[last'.noteId].state = "playing"
           /\ \A k \in DOMAIN playingNotes : playingNotes'[k] = playingNotes[k]
           /\ playingIn(playingNotes', last'.noteId)
           /\ last'.noteId \in getPlayingNotes' ) ]_vars

C11_Witness ==
  /\ last.op = "startNote" /\ last.ret = "true"
  /\ last.events = << NoteStart(last.noteId) >>
  /\ isNotePlaying(last.noteId)
  /\ size(playingNotes) = maxConcurrentNotes

\* C12: a run of startNote(X) that returns false, whatever the reason (a
\* throwing createOscillator, createGain, schedule call or start included),
\* added no entry for X to the map and started no oscillator; startNote
\* resolves to true or false and never rejects.
C12_NoPartialEntry ==
  [][ /\ StartNoteRan => last'.ret \in {"true", "false", "pending"}
      /\ (StartNoteRan /\ last'.ret = "false")
           => ( /\ last'.alloc = {}
                /\ running' = running
                /\ has(playingNotes', last'.noteId)
                     => ( /\ has(playingNotes, last'.noteId)
                          /\ playingNotes'[last'.noteId] =
                               playingNotes[last'.noteId] ) ) ]_vars

C12_Witness ==
  /\ last.op = "startNote/resumed" /\ last.ret = "false"
  /\ "create" \in last.threw
  /\ ~has(playingNotes, last.noteId)
  /\ playingNotes # EmptyMap

\* the wall-clock age at time t of a voice of the map
age(t, playingNote) == t - playingNote.born

\* C13: a reaping pass of the watchdog force-stops and removes a voice only
\* if the voice was started more than 10 s before the pass; a voice started
\* less than 10 s before the pass stays in the map, playing.  (Stated for the
\* second half: no voice that a pass has reaped was younger than 10 s.)
C13_ReapsOnlyStale ==
  last.op = "cleanup"
    => \A r \in last.reaped : ~(age(now, r.voice) < staleAfter)

\* C14 as stated: a pass removes every voice older than 10 s and logs
\* exactly one warning for each voice it reaps, also when the forced stop
\* throws.
C14_OneWarningPerReap ==
  [][ (last'.op = "cleanup" /\ last'.ret = "pass")
      => ( /\ \A n \in DOMAIN playingNotes :
                age(now, playingNotes[n]) > staleAfter => ~has(playingNotes', n)
           /\ Len(last'.warns) = Cardinality(last'.reaped) ) ]_vars

\* C14 amended: a voice older than 10 s is removed from the map by the next
\* tick that performs a pass, with exactly one reap warning for each voice
\* reaped and one more warning for each voice whose forced stop throws; a
\* noteId is absent from getPlayingNotes() from then on until a startNote for
\* it returns true.
C14_ReapedOnPass ==
  [][ /\ (last'.op = "cleanup" /\ last'.ret = "pass")
         => ( /\ \A n \in DOMAIN playingNotes :
                   age(now, playingNotes[n]) > staleAfter
                     => ( /\ ~has(playingNotes', n)
                          /\ n \notin getPlayingNotes'
                          /\ [noteId |-> n, voice |-> playingNotes[n]]
                               \in last'.reaped )
              /\ \A n \in NoteIds :
                   /\ count(last'.warns, ReapWarn(n))
                        = Cardinality({ r \in last'.reaped : r.noteId = n })
                   /\ count(last'.warns, ReapFailedWarn(n)) <= 1
                   /\ count(last'.warns, ReapFailedWarn(n)) = 1
                        => n \in last'.stops
              /\ ("stop" \in last'.threw)
                   <=> (Len(last'.warns) > Cardinality(last'.reaped))
              /\ \A i \in 1..Len(last'.events) :
                   last'.events[i].topic # "error" )
      /\ \A n \in NoteIds :
           (~has(playingNotes, n) /\ has(playingNotes', n))
             => (StartNoteRan /\ last'.noteId = n /\ last'.ret = "true") ]_vars

C14_Witness ==
  /\ last.op = "cleanup" /\ last.ret = "pass"
  /\ "stop" \in last.threw
  /\ \E r \in last.reaped :
       /\ age(now, r.voice) > staleAfter
       /\ last.warns = << ReapWarn(r.noteId), ReapFailedWarn(r.noteId) >>
  /\ getPlayingNotes = {}

\* C15 as stated: a tick of the 10 s interval timer performs a reaping pass
\* if and only if at least 30 s have passed since the previous pass, or no
\* pass has happened yet.
C15_PassIffThirtyElapsed ==
  [][ last'.op = "cleanup"
      => ( (last'.ret = "pass")
             <=> (lastCleanupTime = 0 \/ now - lastCleanupTime >= cleanupGate) ) ]_vars

\* C15 amended: a tick performs a reaping pass if and only if more than 30 s
\* have passed since the previous pass, or no pass has happened yet (a tick
\* exactly 30 s after a pass performs none); a pass records its time, a tick
\* without a pass does not, and so two passes are more than 30 s apart.
C15_PassIffMoreThanThirty ==
  [][ last'.op = "cleanup"
      => ( /\ (last'.ret = "pass")
                <=> (lastCleanupTime = 0 \/ now - lastCleanupTime > cleanupGate)
           /\ last'.ret \in {"pass", "skip"}
           /\ (last'.ret = "pass" /\ lastCleanupTime # 0)
                => now - lastCleanupTime > cleanupGate
           /\ lastCleanupTime' = IF last'.ret = "pass" THEN now ELSE lastCleanupTime
           /\ last'.ret = "skip"
                => (playingNotes' = playingNotes /\ last'.warns = << >>) ) ]_vars

C15_Witness ==
  /\ last.op = "cleanup" /\ last.ret = "skip"
  /\ now - lastCleanupTime = cleanupGate
  /\ playingNotes # EmptyMap

\* C16: initialize on a service that is already initialized returns true and
\* does nothing: the configuration passed is ignored, the context and the
\* node chain are not rebuilt, no interval timer is set, no event is emitted
\* and the voices are untouched.  The chain is built only on a service that is
\* not initialized, and only destroy makes an initialized service
\* uninitialized: there is one build between two teardowns, and at most one
\* interval timer.
C16_InitializeIdempotent ==
  [][ /\ (last'.op = "initialize" /\ isInitialized)
         => ( /\ last'.ret = "true"
              /\ last'.events = << >>
              /\ last'.calls = << >>
              /\ last'.timers = 0
              /\ config' = config
              /\ audioContext' = audioContext /\ ctxCreated' = ctxCreated
              /\ graphVars' = graphVars
              /\ watchdogVars' = watchdogVars
              /\ noteVars' = noteVars
              /\ isInitialized' )
      /\ (last'.op = "initialize" /\ (last'.calls # << >> \/ last'.timers > 0))
         => (~isInitialized /\ isInitialized' /\ last'.timers = 1)
      /\ (isInitialized /\ ~isInitialized') => last'.op = "destroy"
      /\ Len(intervals') <= 1 ]_vars

C16_Witness ==
  /\ last.op = "initialize" /\ last.ret = "true" /\ last.events = << >>
  /\ isInitialized /\ Len(intervals) = 1
  /\ config # DefaultConfig
  /\ playingNotes # EmptyMap

\* C17: when the construction of the context or of a node throws in
\* initialize, initialize returns false, emits exactly one error event of
\* kind AUDIO_INIT_FAILED, isReady() stays false and no interval timer is
\* set; the service stays uninitialized, so that a later initialize constructs
\* a context again.
C17_InitFailure ==
  [][ /\ (last'.op = "initialize" /\ last'.threw # {})
         => ( /\ last'.ret = "false"
              /\ last'.events = << ErrorEv("AUDIO_INIT_FAILED") >>
              /\ ~isReady /\ ~isReady'
              /\ ~isInitialized'
              /\ last'.timers = 0
              /\ watchdogVars' = watchdogVars )
      /\ (last'.op = "initialize" /\ ~isInitialized /\ last'.threw = {})
         => ( /\ last'.ret = "true"
              /\ isReady'
              /\ audioContext' = "running" /\ ctxCreated' = now
              /\ masterGainNode' /\ compressorNode' /\ filterNode' ) ]_vars

C17_Witness ==
  /\ last.op = "initialize" /\ last.ret = "false"
  /\ last.events = << ErrorEv("AUDIO_INIT_FAILED") >>
  /\ audioContext = "running" /\ masterGainNode /\ ~filterNode
  /\ ~isReady

\* C18: after a destroy() has completed, isReady() is false,
\* getPlayingNotes() is empty, the context and the node handles are null and
\* the interval timer is cleared.
C18_DestroyResets ==
  (last.op = "destroy" /\ last.ret = "void")
    => ( /\ ~isReady
         /\ getPlayingNotes = {}
         /\ audioContext = "null"
         /\ ~masterGainNode /\ ~compressorNode /\ ~filterNode
         /\ ~cleanupTimer /\ intervals = << >> )

inRange(x, lo, hi) == x.k = "num" /\ lo <= x.v /\ x.v <= hi

\* C19: in every reachable state the stored configuration has masterVolume
\* in [0,1], envelope.sustain in [0,1] (tenths: 0..10) and filterFrequency in
\* [100,20000].
C19_ConfigInRange ==
  /\ inRange(config.masterVolume, 0, 10)
  /\ inRange(config.sustain, 0, 10)
  /\ inRange(config.filterFrequency, 100, 20000)

\* C20: after setMasterVolume(v) the stored master volume is
\* min(1, max(0, v)); when the master gain node exists the call makes exactly
\* one call on it, a linear ramp to that value ending 100 ms after the current
\* audio time, and no assignment of gain.value; without the node it makes no
\* call.  Likewise setFilterFrequency(f) stores min(20000, max(100, f)) and
\* schedules one such ramp on the filter frequency.  Neither changes anything
\* else.
C20_SettersClampAndRamp ==
  [][ /\ last'.op = "setMasterVolume"
         => LET v == Math_min(Num(10), Math_max(Num(0), last'.arg)) IN
            /\ config' = [config EXCEPT !.masterVolume = v]
            /\ last'.calls =
                 IF masterGainNode
                   THEN << [node |-> "masterGain",
                            call |-> "linearRampToValueAtTime", value |-> v,
                            at |-> (now - ctxCreated) * 1000 + 100] >>
                   ELSE << >>
            /\ graphVars' = graphVars /\ noteVars' = noteVars
      /\ last'.op = "setFilterFrequency"
         => LET f == Math_min(Num(20000), Math_max(Num(100), last'.arg)) IN
            /\ config' = [config EXCEPT !.filterFrequency = f]
            /\ last'.calls =
                 IF filterNode /\ audioContext # "null"
                   THEN << [node |-> "filter",
                            call |-> "linearRampToValueAtTime", value |-> f,
                            at |-> (now - ctxCreated) * 1000 + 100] >>
                   ELSE << >>
            /\ graphVars' = graphVars /\ noteVars' = noteVars ]_vars

C20_Witness ==
  /\ last.op = "setMasterVolume" /\ last.arg = Num(15)
  /\ config.masterVolume = Num(10)
  /\ last.calls = << [node |-> "masterGain", call |-> "linearRampToValueAtTime",
                      value |-> Num(10), at |-> 5100] >>

(* ------------------------------------------ specification with envelopes *)

GainNotes == { "C4", "D4", "E4" }
\* velocities (0..127 by the documentation of startNote)
Velocities == { Num(0), Num(12), Num(13), Num(64), Num(127) }
\* sustain levels in tenths and release times in tenths of a second
GainSustains == { Absent, Num(10) }
Releases == { Absent, Num(0), Num(30) }

NextGain ==
  \/ Return
  \/ Initialize(NoConfig, "none")
  \/ \E n \in GainNotes, velocity \in Velocities :
       StartNoteWith(n, velocity, FALSE, FALSE)
  \/ ResumeStartNote(FALSE)
  \/ \E n \in GainNotes : StopNote(n, FALSE)
  \/ \E sustain \in GainSustains, releaseTime \in Releases :
       SetEnvelope(sustain, releaseTime)

SpecGain == Init /\ [][NextGain]_vars

(* ------------------------------- specification with every kind of call *)

NextFrame ==
  \/ Return
  \/ Initialize(NoConfig, "none")
  \/ StartNote("C4", FALSE, FALSE)
  \/ ResumeStartNote(FALSE)
  \/ StopNote("C4", FALSE)
  \/ StopAllNotes
  \/ \E volume \in { Num(4), Num(15) } : SetMasterVolume(volume, FALSE)
  \/ SetFilterFrequency(Num(50), FALSE)
  \/ SetEnvelope(Num(10), Absent)
  \/ DestroyBegin
  \/ DestroyClose("resolves")
  \/ DestroyFinish
  \/ AdvanceTime(cleanupInterval, ConfigTime)
  \/ \E T \in Throwing(playingNotes) : Tick(T)

SpecFrame == Init /\ [][NextFrame]_vars

(* -------------------------------- specification with a fair scheduler *)

\* The application awaits a startNote before it calls the next one, so that
\* no second passes without a moment at which no call is suspended.
NextLive ==
  \/ Return
  \/ Initialize(NoConfig, "none")
  \/ \E n \in WatchdogNotes : pending = << >> /\ StartNote(n, FALSE, FALSE)
  \/ ResumeStartNote(FALSE)
  \/ \E d \in Delays : AdvanceTime(d, LiveTime)
  \/ Tick({})

\* Time passes, a timer that is due runs its callback, and a call that has
\* ended is followed by the next task: the event loop runs every task that
\* is ready, however many calls are made in between.
SpecLive ==
  /\ Init /\ [][NextLive]_vars
  /\ WF_vars(Return)
  /\ SF_vars(ResumeStartNote(FALSE))
  /\ SF_vars(\E d \in Delays : AdvanceTime(d, LiveTime))
  /\ SF_vars(Tick({}))

(* ------------------------------------------- specification of frequencies *)

\* octaves that the frequency functions are called with
MinOctave == 2
MaxOctave == 7
Octaves == MinOctave..MaxOctave

\* a frequency is a whole number of 1/100000 Hz, a ratio a whole number of
\* 1/100000000: One is the ratio 1
One == 10000 * 10000

A4_FREQUENCY == 440
A4_MIDI_NUMBER == 69
\* Math.pow(2, 1/12) = 1.0594630943...
SEMITONE_RATIO == 105946309
\* const baseNote = 60
baseNote == 60

NoteNames == << "C", "C#", "D", "D#", "E", "F", "F#", "G", "G#", "A", "A#", "B" >>

\* NOTE_TO_SEMITONE_OFFSET[noteName]
NOTE_TO_SEMITONE_OFFSET(noteName) ==
  (CHOOSE i \in 1..Len(NoteNames) : NoteNames[i] = noteName) - 1

noteToMidiNumber_noOctave(noteName, octave) ==
  baseNote + NOTE_TO_SEMITONE_OFFSET(noteName)

noteToMidiNumber(noteName, octave) ==
  LET semitoneOffset == NOTE_TO_SEMITONE_OFFSET(noteName)
      octaveOffset == (octave - 4) * 12
  IN baseNote + semitoneOffset + octaveOffset

\* the product of the ratios a and b, rounded down, without a step over 2^31
times(a, b) ==
  LET a1 == a \div 10000  a0 == a % 10000
      b1 == b \div 10000  b0 == b % 10000
      mid == a1 * b0 + a0 * b1
  IN a1 * b1 + mid \div 10000 + ((mid % 10000) * 10000 + a0 * b0) \div One

\* Math.pow(SEMITONE_RATIO, exponent) for a whole exponent, as a ratio, by
\* squaring; a negative exponent is the power of 1/SEMITONE_RATIO =
\* 0.94387431...
RECURSIVE Math_pow(_, _)
Math_pow(base, exponent) ==
  IF exponent = 0 THEN One
  ELSE IF exponent < 0 THEN Math_pow(94387431, 0 - exponent)
  ELSE LET half == Math_pow(base, exponent \div 2)
           square == times(half, half)
       IN IF exponent % 2 = 0 THEN square ELSE times(square, base)

midiNumberToFrequency(midiNumber) ==
  LET semitonesFromA4 == midiNumber - A4_MIDI_NUMBER
      p == Math_pow(SEMITONE_RATIO, semitonesFromA4)
  IN (p \div 1000) * A4_FREQUENCY + ((p % 1000) * A4_FREQUENCY) \div 1000

calculateNoteFrequency(noteName, octave) ==
  midiNumberToFrequency(noteToMidiNumber(noteName, octave))

\* the noteId of a note name and an octave
idOf(noteName, octave) == noteName \o ToString(octave)

\* noteId.match(/^([A-G]#?)(\d+)$/), for octaves of one digit
matches(noteId) ==
  { m \in [noteName : { NoteNames[i] : i \in 1..Len(NoteNames) }, octave : 0..9] :
      idOf(m.noteName, m.octave) = noteId }

parseNoteId(noteId) == CHOOSE m \in matches(noteId) : TRUE

\* the entries of PIANO_FREQUENCIES as written: the key and the arguments of
\* its call of calculateNoteFrequency
PIANO_ENTRIES ==
  << << "C3", "C", 3 >>, << "C#3", "C#", 3 >>, << "D3", "D", 3 >>,
     << "D#3", "D#", 3 >>, << "E3", "E", 3 >>, << "F3", "F", 3 >>,
     << "F#3", "F#", 3 >>, << "G3", "G", 3 >>, << "G#3", "G#", 3 >>,
     << "A3", "A", 3 >>, << "A#3", "A#", 3 >>, << "B3", "B", 3 >>,
     << "C4", "C", 4 >>, << "C#4", "C#", 4 >>, << "D4", "D", 4 >>,
     << "D#4", "D#", 4 >>, << "E4", "E", 4 >>, << "F4", "F", 4 >>,
     << "F#4", "F#", 4 >>, << "G4", "G", 4 >>, << "G#4", "G#", 4 >>,
     << "A4", "A", 4 >>, << "A#4", "A#", 4 >>, << "B4", "B", 4 >>,
     << "C5", "C", 5 >>, << "C#5", "C#", 5 >>, << "D5", "D", 5 >>,
     << "D#5", "D#", 5 >>, << "E5", "E", 5 >>, << "F5", "F", 5 >>,
     << "F#5", "F#", 5 >>, << "G5", "G", 5 >>, << "G#5", "G#", 5 >>,
     << "A5", "A", 5 >>, << "A#5", "A#", 5 >>, << "B5", "B", 5 >>,
     << "C6", "C", 6 >> >>

\* PIANO_FREQUENCIES[noteId]
tableFrequency(noteId) ==
  LET e == CHOOSE i \in 1..Len(PIANO_ENTRIES) : PIANO_ENTRIES[i][1] = noteId
  IN calculateNoteFrequency(PIANO_ENTRIES[e][2], PIANO_ENTRIES[e][3])

Frequency(op, noteId, f) ==
  /\ last = Idle
  /\ last' = [Result(op, noteId, "number", << >>, {}, {}, {}) EXCEPT !.arg = f]
  /\ UNCHANGED << isInitialized, audioContext, noteVars, destroyPc, config,
                  graphVars, watchdogVars, clockVars, listenerVars >>

\* PIANO_FREQUENCIES[noteId], as AudioService.startNote reads it
LookUp(noteId) ==
  Frequency("PIANO_FREQUENCIES", noteId,
            IF noteId \in PIANO_FREQUENCIES THEN Num(tableFrequency(noteId))
            ELSE Absent)

CalculateNoteFrequency(noteName, octave) ==
  Frequency("calculateNoteFrequency", idOf(noteName, octave),
            Num(calculateNoteFrequency(noteName, octave)))

GetNoteFrequency(noteId) ==
  IF matches(noteId) = {}
    THEN /\ last = Idle
         /\ last' = Result("getNoteFrequency", noteId, "throws", << >>, {}, {}, {})
         /\ UNCHANGED << isInitialized, audioContext, noteVars, destroyPc,
                         config, graphVars, watchdogVars, clockVars,
                         listenerVars >>
    ELSE Frequency("getNoteFrequency", noteId,
                   Num(calculateNoteFrequency(parseNoteId(noteId).noteName,
                                              parseNoteId(noteId).octave)))

\* the noteIds that the frequency functions are called with
FrequencyNoteIds ==
  { idOf(NoteNames[i], o) : i \in 1..Len(NoteNames), o \in Octaves } \cup { "H4" }

NextFreq ==
  \/ Return
  \/ \E noteId \in FrequencyNoteIds : LookUp(noteId)
  \/ \E i \in 1..Len(NoteNames), o \in Octaves :
       CalculateNoteFrequency(NoteNames[i], o)
  \/ \E noteId \in FrequencyNoteIds : GetNoteFrequency(noteId)

SpecFreq == Init /\ [][NextFreq]_vars

(* ------------------------------------------------------------ C21 .. C30 *)

\* the listeners invoked for the k-th event of the handler that ran, in order
invocations(d, k) ==
  LET RECURSIVE pick(_)
      pick(j) == IF j > Len(d.log) THEN << >>
                 ELSE IF d.log[j].event = k
                   THEN << d.log[j].listener >> \o pick(j + 1)
                 ELSE pick(j + 1)
  IN pick(1)

\* the listeners that leave the subscriptions as they are
Passive == { "plain", "thrower", "late" }

passive(seq) == \A i \in 1..Len(seq) : seq[i] \in Passive

\* the events that the run of this step emitted, by their place in last'.events
emitted(d, events) == d.first..Len(events)

\* C21: when the subscribers of the topics a handler emits on leave the
\* subscriptions alone and one of them throws, every subscriber of the topic
\* is invoked exactly once for the event, in the order of registration, and
\* the handler ends as it does without subscribers: startNote returns true
\* with the voice in the map, stopNote returns true with the voice removed,
\* initialize leaves the service initialized.
C21_ThrowingSubscriberIsolated ==
  [][ (\A k \in emitted(delivered', last'.events) :
         passive(eventListeners[last'.events[k].topic]))
      => \A k \in emitted(delivered', last'.events) :
           LET e == last'.events[k]
               subs == eventListeners[e.topic] IN
           indexOf(subs, "thrower") # 0
             => ( /\ invocations(delivered', k) = subs
                  /\ ~delivered'.diverged
                  /\ e = NoteStart(last'.noteId)
                       => last'.ret = "true" /\ has(playingNotes', last'.noteId)
                  /\ (e = NoteEnd(last'.noteId) /\ last'.op = "stopNote")
                       => last'.ret = "true" /\ ~has(playingNotes', last'.noteId)
                  /\ e = StateChange => isInitialized' ) ]_vars

C21_Witness ==
  /\ last.op = "stopNote" /\ last.ret = "true"
  /\ invocations(delivered, 1) = << "thrower", "plain" >>

\* C22: an emit invokes exactly the subscribers that were registered for the
\* topic when it began, each once and in the order of registration, and
\* ends. (Does not hold: Set.forEach follows the Set as the listeners
\* change it.)
C22_DeliversToSnapshot ==
  [][ \A k \in emitted(delivered', last'.events) :
        /\ invocations(delivered', k) = eventListeners[last'.events[k].topic]
        /\ ~delivered'.diverged ]_vars

\* 2^(j/12) for j = 0..11, as ratios
TwelfthRoots ==
  << 100000000, 105946309, 112246205, 118920712, 125992105, 133483985,
     141421356, 149830708, 158740105, 168179283, 178179744, 188774863 >>

\* 440 * 2^((midi - 69) / 12)
equalTempered(midi) ==
  LET d == midi - 69
      octaves == d \div 12
      base == (TwelfthRoots[(d % 12) + 1] \div 100) * 44
              + ((TwelfthRoots[(d % 12) + 1] % 100) * 44) \div 100
  IN IF octaves >= 0 THEN base * 2 ^ octaves ELSE base \div 2 ^ (0 - octaves)

\* frequencies no further apart than this many 1/100000 Hz are taken as equal
Tolerance == 100

near(f, g) == f - g <= Tolerance /\ g - f <= Tolerance

\* 60 + semitoneOffset + 12 * (octave - 4) of a noteId of the table
midiOf(noteId) ==
  LET m == parseNoteId(noteId)
      offset == CHOOSE k \in 0..11 : NoteNames[k + 1] = m.noteName
  IN 60 + offset + 12 * (m.octave - 4)

\* C23: the table has the 37 noteIds C3..C6, whose MIDI numbers 60 +
\* semitoneOffset + 12 * (octave - 4) are 48..84, each once; the frequency
\* read from the table for a noteId is 440 * 2^((midi - 69) / 12) (to
\* 0.001 Hz), 440 Hz for A4 and 261.626 Hz for C4 (to 0.001 Hz).
C23_EqualTemperedTable ==
  /\ Cardinality(PIANO_FREQUENCIES) = 37
  /\ { PIANO_ENTRIES[i][1] : i \in 1..Len(PIANO_ENTRIES) } = PIANO_FREQUENCIES
  /\ { midiOf(n) : n \in PIANO_FREQUENCIES } = 48..84
  /\ (last.op = "PIANO_FREQUENCIES" /\ last.noteId \in PIANO_FREQUENCIES)
       => /\ last.arg.k = "num"
          /\ near(last.arg.v, equalTempered(midiOf(last.noteId)))
          /\ last.noteId = "A4" => last.arg.v = 44000000
          /\ last.noteId = "C4" => near(last.arg.v, 26162600)

C23_Witness ==
  /\ last.op = "PIANO_FREQUENCIES" /\ last.noteId = "C3"
  /\ near(last.arg.v, 13081300)

\* C24: an accepted startNote(X, velocity) with velocity in 0..127 and n
\* voices in the map when it allocates (after the stop of a voice it
\* replaces) schedules on the gain of the new voice: the value 0.001 at the
\* current audio time, a ramp to the peak max(0.1, min(1, velocity/127)) *
\* 0.15 * max(0.6, 1 - 0.05 n), and a ramp to the peak times the sustain
\* level (gains in 1/127000000, sustain in tenths).
C24_PeakGain ==
  [][ ( /\ last'.op \in { "startNote", "startNote/resumed" }
        /\ last'.ret = "true"
        /\ last'.arg.k = "num" /\ last'.arg.v \in 0..127 )
      => LET v == last'.arg.v
             n == size(playingNotes)
             byVelocity == IF v * 10 <= 127 THEN 127
                           ELSE IF v >= 127 THEN 1270 ELSE v * 10
             byLoad == IF 100 - 5 * n >= 60 THEN 100 - 5 * n ELSE 60
             peak == byVelocity * 150 * byLoad
         IN /\ Len(last'.calls) = 3
            /\ last'.calls[1].call = "setValueAtTime"
            /\ last'.calls[1].value = Num(127000)
            /\ last'.calls[1].at = currentTime * 1000
            /\ last'.calls[2].value = Num(peak)
            /\ config.sustain.k = "num"
                 => last'.calls[3].value = Num((peak * config.sustain.v) \div 10)
    ]_vars

C24_Witness ==
  /\ last.op = "startNote" /\ last.ret = "true" /\ last.arg = Num(64)
  /\ size(playingNotes) = 3
  /\ last.calls[2].value = Num(640 * 150 * 90)
  /\ last.calls[3].value = Num(640 * 15 * 90 * 7)

NoteOps ==
  { "startNote", "startNote/resumed", "stopNote", "stopNote/again",
    "stopAllNotes", "cleanup" }

\* some call of the step was made on the node
touches(calls, node) == \E i \in 1..Len(calls) : calls[i].node = node

\* C26: startNote, stopNote, stopAllNotes and the pass of the watchdog leave
\* the configuration, the initialized flag, the context and the nodes of the
\* chain as they are and make no call on the master gain or the filter; the
\* master volume (stored or on the node) changes only in setMasterVolume and
\* initialize, the filter frequency only in setFilterFrequency and
\* initialize, and the nodes only in initialize and destroy.
C26_NoteOpsFrame ==
  [][ /\ last'.op \in NoteOps
         => ( /\ config' = config
              /\ isInitialized' = isInitialized
              /\ audioContext' = audioContext
              /\ graphVars' = graphVars
              /\ ~touches(last'.calls, "masterGain")
              /\ ~touches(last'.calls, "filter") )
      /\ (config'.masterVolume # config.masterVolume
            \/ touches(last'.calls, "masterGain"))
         => last'.op \in { "setMasterVolume", "initialize" }
      /\ (config'.filterFrequency # config.filterFrequency
            \/ touches(last'.calls, "filter"))
         => last'.op \in { "setFilterFrequency", "initialize" }
      /\ graphVars' # graphVars => last'.op \in { "initialize", "destroy" }
    ]_vars

C26_Witness ==
  /\ last.op = "cleanup" /\ last.ret = "pass" /\ last.reaped # {}
  /\ config.masterVolume = Num(10) /\ config.filterFrequency = Num(100)
  /\ isInitialized /\ masterGainNode /\ filterNode

\* C27: when stopNote(X) was called while a startNote(X) was suspended in its
\* settle delay, X is not in the map once that startNote has ended. (Does
\* not hold: stopNote finds no entry for X and returns false, and the
\* resumed startNote allocates the voice.)
C27_StopWinsOverSuspendedStart ==
  [][ (last'.op = "startNote/resumed" /\ Head(pending).stopCalled)
      => ~has(playingNotes', last'.noteId) ]_vars

\* the set of a subscriber that adds X on noteStart and removes X on noteEnd,
\* after the events from the k-th on
RECURSIVE mirror(_, _, _)
mirror(held, events, k) ==
  IF k > Len(events) THEN held
  ELSE mirror(IF events[k].topic = "noteStart" THEN held \cup { events[k].noteId }
              ELSE IF events[k].topic = "noteEnd" THEN held \ { events[k].noteId }
              ELSE held,
              events, k + 1)

\* C28: a subscriber that adds X on noteStart and removes X on noteEnd and
\* holds getPlayingNotes() before a step holds getPlayingNotes() after it.
\* (Does not hold: the watchdog and destroy remove entries without a
\* noteEnd.)
C28_EventsMirrorMap ==
  [][ mirror(DOMAIN playingNotes, last'.events, delivered'.first)
        = DOMAIN playingNotes' ]_vars

\* C29: between calls every entry of the map is in state playing, so that
\* isNotePlaying(n) is true exactly for the noteIds of getPlayingNotes().
C29_NoStoppingObservable ==
  /\ \A n \in DOMAIN playingNotes : playingNotes[n].state = "playing"
  /\ \A n \in NoteIds : isNotePlaying(n) <=> n \in getPlayingNotes

C29_Witness ==
  /\ last.op = "stopNote" /\ last.ret = "true"
  /\ playingNotes # EmptyMap
  /\ ~isNotePlaying(last.noteId)

\* C30: with the service initialized and the interval timer firing, a voice
\* that is in the map is removed from it at some later time, with no call of
\* stopNote.  Stated for the voices that are in the map 40 s or more before
\* the last second that is followed: a pass comes within 30 s + 10 s.
C30_EveryVoiceRemoved ==
  \A n \in WatchdogNotes :
    (has(playingNotes, n) /\ now + cleanupGate + cleanupInterval <= Epoch + LiveTime)
      ~> ~has(playingNotes, n)

C30_Witness ==
  /\ last.op = "cleanup" /\ last.ret = "pass" /\ last.reaped # {}
  /\ now >= Epoch + cleanupGate + cleanupInterval
  /\ isInitialized /\ cleanupTimer

====
